---- MODULE Spec2Model ----
(***************************************************************************)
(* A model of the translation service (translateToTurkish, translateBatch, *)
(* the sentiment tagger) and of the POST /api/translate route handler.     *)
(*                                                                         *)
(* Strings are run-length encoded: a string is a sequence of runs          *)
(* [s |-> atom, n |-> count], the atom repeated count times.  An atom is   *)
(* one character (" ", ".", "a", ...) or an indivisible piece of text (a   *)
(* tag such as "<b>", a word such as "surge").  A string is kept in normal *)
(* form (no empty run, no two adjacent runs of one atom), so that string   *)
(* equality is equality of the sequences.  The encoding keeps the          *)
(* program's real thresholds (500 and 10 characters) within reach.         *)
(***************************************************************************)
EXTENDS Integers, Sequences, FiniteSets, TLC

\* ------------------------------------------------------------------------
\* Strings
\* ------------------------------------------------------------------------

Rep(a, k) == IF k > 0 THEN << [s |-> a, n |-> k] >> ELSE << >>

RECURSIVE Norm(_)
Norm(str) ==
    IF str = << >> THEN << >>
    ELSE IF str[1].n = 0 THEN Norm(Tail(str))
    ELSE IF Len(str) >= 2 /\ str[2].s = str[1].s
         THEN Norm(<< [s |-> str[1].s, n |-> str[1].n + str[2].n] >> \o Tail(Tail(str)))
    ELSE << str[1] >> \o Norm(Tail(str))

\* a + b on strings
Cat(a, b) == Norm(a \o b)

RECURSIVE StrLen(_)
\* str.length
StrLen(str) ==
    IF str = << >> THEN 0 ELSE Len(str[1].s) * str[1].n + StrLen(Tail(str))

TagAtoms == {"<b>", "</b>", "<p>"}
ScriptAtoms == {"<script>x()</script>"}
Terminators == {".", "!", "?"}
IsSpace(a) == a = " "

LowerAtom(a) ==
    CASE a = "A" -> "a"
      [] a = "Surge" -> "surge"
      [] a = "HACK" -> "hack"
      [] OTHER -> a

\* str.toLowerCase()
toLowerCase(str) ==
    Norm([i \in DOMAIN str |-> [s |-> LowerAtom(str[i].s), n |-> str[i].n]])

RECURSIVE TrimStart(_)
TrimStart(str) ==
    IF str # << >> /\ IsSpace(str[1].s) THEN TrimStart(Tail(str)) ELSE str

RECURSIVE TrimEnd(_)
TrimEnd(str) ==
    IF str # << >> /\ IsSpace(str[Len(str)].s)
    THEN TrimEnd(SubSeq(str, 1, Len(str) - 1))
    ELSE str

\* str.trim()
trim(str) == TrimEnd(TrimStart(str))

\* str.replace(/\s+/g, ' ')
CollapseWhitespace(str) ==
    [i \in DOMAIN str |-> IF IsSpace(str[i].s) THEN [s |-> " ", n |-> 1] ELSE str[i]]

\* ------------------------------------------------------------------------
\* stripHtml (translation service)
\* ------------------------------------------------------------------------

UrlAtoms == {"http://t.co/x"}
BoilerplateAtoms == {"Read more:", "RSVP:"}

\* a character reference, a piece of markup that stands for the text "<b>"
EntityAtoms == {"&lt;b&gt;"}

\* the text that the parser yields for a piece of character data
DecodeEntity(a) == IF a \in EntityAtoms THEN "<b>" ELSE a

\* cheerio: text content with the tags dropped, script/style removed and the
\* character references decoded
CheerioText(html) ==
    LET kept == SelectSeq(html, LAMBDA r : r.s \notin TagAtoms \cup ScriptAtoms)
    IN Norm([i \in DOMAIN kept |-> [s |-> DecodeEntity(kept[i].s), n |-> kept[i].n]])

RECURSIVE PipeIndex(_, _)
\* index of the first run of '|' at or after i, 0 when there is none
PipeIndex(str, i) ==
    IF i > Len(str) THEN 0
    ELSE IF str[i].s = "|" THEN i
    ELSE PipeIndex(str, i + 1)

\* text.split('|')[0]
SplitPipeFirst(str) ==
    LET p == PipeIndex(str, 1)
    IN IF p = 0 THEN str ELSE SubSeq(str, 1, p - 1)

RECURSIVE RemoveUrls(_, _)
\* text.replace(/https?:\/\/[^\s]+/g, ''): the URL and what follows it up to
\* the next whitespace; inUrl says that the scan is inside a match
RemoveUrls(str, inUrl) ==
    IF str = << >> THEN << >>
    ELSE IF str[1].s \in UrlAtoms THEN RemoveUrls(Tail(str), TRUE)
    ELSE IF inUrl /\ ~IsSpace(str[1].s) THEN RemoveUrls(Tail(str), TRUE)
    ELSE << str[1] >> \o RemoveUrls(Tail(str), FALSE)

\* text.replace(/RSVP:/gi, '') ... text.replace(/Read more:/gi, '')
RemoveBoilerplate(str) ==
    SelectSeq(str, LAMBDA r : r.s \notin BoilerplateAtoms)

MinCleanLength == 10

\* a cleaner that measures the length before the whitespace is cleaned up
stripHtmlLengthBeforeTrim(html) ==
    LET text0 == CheerioText(html)
        first == SplitPipeFirst(text0)
        text1 == IF first # << >> THEN first ELSE text0
        text2 == RemoveBoilerplate(Norm(RemoveUrls(text1, FALSE)))
        text3 == Norm(trim(Norm(CollapseWhitespace(Norm(text2)))))
    IN IF StrLen(text2) < MinCleanLength THEN << >> ELSE text3

stripHtml(html) ==
    LET text0 == CheerioText(html)
        first == SplitPipeFirst(text0)
        text1 == IF first # << >> THEN first ELSE text0
        text2 == RemoveBoilerplate(Norm(RemoveUrls(text1, FALSE)))
        text3 == Norm(trim(Norm(CollapseWhitespace(Norm(text2)))))
    IN IF StrLen(text3) < MinCleanLength THEN << >> ELSE text3

RECURSIVE ReplaceTags(_)
\* html.replace(/<[^>]*>/g, ' '): every tag becomes a blank; the text between
\* <script> and </script> stays
ReplaceTags(html) ==
    IF html = << >> THEN << >>
    ELSE (IF html[1].s \in TagAtoms THEN Rep(" ", html[1].n)
          ELSE IF html[1].s \in ScriptAtoms
               THEN << [s |-> " ", n |-> 1], [s |-> "x()", n |-> 1], [s |-> " ", n |-> 1] >>
          ELSE << html[1] >>) \o ReplaceTags(Tail(html))

\* the catch branch of stripHtml: (A || B), A the tag-free text before the
\* first '|', B the URL-free, whitespace-collapsed, trimmed html
stripHtmlFallback(html) ==
    LET a == SplitPipeFirst(Norm(ReplaceTags(html)))
        b == Norm(trim(Norm(CollapseWhitespace(Norm(RemoveUrls(html, FALSE))))))
    IN IF a # << >> THEN a ELSE b

\* ------------------------------------------------------------------------
\* Chunking
\* ------------------------------------------------------------------------

maxChunkSize == 500

RECURSIVE TermEnd(_, _)
\* the last index of the run of terminators that starts at i
TermEnd(str, i) ==
    IF i < Len(str) /\ str[i + 1].s \in Terminators THEN TermEnd(str, i + 1) ELSE i

RECURSIVE FirstTerm(_, _)
\* index of the first terminator run at or after i, 0 when there is none
FirstTerm(str, i) ==
    IF i > Len(str) THEN 0
    ELSE IF str[i].s \in Terminators THEN i
    ELSE FirstTerm(str, i + 1)

RECURSIVE MatchSentences(_)
\* cleanText.match(/[^.!?]+[.!?]+/g): the matches, none when there is no match
MatchSentences(str) ==
    IF str = << >> THEN << >>
    ELSE IF str[1].s \in Terminators THEN MatchSentences(Tail(str))
    ELSE LET i == FirstTerm(str, 1)
         IN IF i = 0 THEN << >>
            ELSE LET j == TermEnd(str, i)
                 IN << SubSeq(str, 1, j) >> \o MatchSentences(SubSeq(str, j + 1, Len(str)))

\* cleanText.match(...) || [cleanText]
Sentences(cleanText) ==
    LET m == MatchSentences(cleanText)
    IN IF m = << >> THEN << cleanText >> ELSE m

RECURSIVE PackSentences(_, _, _)
\* the for loop over the sentences and the push after it
PackSentences(sentences, currentChunk, chunks) ==
    IF sentences = << >>
    THEN IF currentChunk # << >> THEN Append(chunks, currentChunk) ELSE chunks
    ELSE IF StrLen(Cat(currentChunk, sentences[1])) <= maxChunkSize
         THEN PackSentences(Tail(sentences), Cat(currentChunk, sentences[1]), chunks)
         ELSE PackSentences(Tail(sentences), sentences[1],
                            IF currentChunk # << >> THEN Append(chunks, currentChunk)
                            ELSE chunks)

BuildChunks(cleanText) == PackSentences(Sentences(cleanText), << >>, << >>)

RECURSIVE join(_, _)
\* parts.join(sep)
join(parts, sep) ==
    IF parts = << >> THEN << >>
    ELSE IF Len(parts) = 1 THEN parts[1]
    ELSE Cat(Cat(parts[1], sep), join(Tail(parts), sep))

\* ------------------------------------------------------------------------
\* Providers
\* ------------------------------------------------------------------------

Return(v, from) == [kind |-> "return", val |-> v, src |-> from]
Throw == [kind |-> "throw", val |-> << >>, src |-> "throw"]

UpperAtom(a) ==
    CASE a = "a" -> "A"
      [] a = "surge" -> "Surge"
      [] a = "hack" -> "HACK"
      [] OTHER -> a
\* the text with its letters in upper case: equal to it but for the case
UpperCased(str) ==
    Norm([i \in DOMAIN str |-> [s |-> UpperAtom(str[i].s), n |-> str[i].n]])

\* What the proxy may answer to the Google request for q: a failure status, a
\* payload that is no non-empty array, and arrays of [fragment, ...] items
GoogleResponses(q) ==
    { [ok |-> FALSE, valid |-> TRUE, frags |-> << >>],
      [ok |-> TRUE, valid |-> FALSE, frags |-> << >>] }
    \cup { [ok |-> TRUE, valid |-> TRUE, frags |-> f] :
             f \in { << >>, << << >>, Rep(" ", 2) >>, << q >>, << UpperCased(q) >>,
                     << Rep("c", 10) >>, << Rep("c", 1), << >>, q >> } }

\* What the proxy may answer to the LibreTranslate request for q
LibreResponses(q) ==
    { [ok |-> FALSE, hasText |-> TRUE, translatedText |-> q],
      [ok |-> TRUE, hasText |-> FALSE, translatedText |-> << >>] }
    \cup { [ok |-> TRUE, hasText |-> TRUE, translatedText |-> x] :
             x \in { << >>, Rep(" ", 2), q, UpperCased(q), Rep("c", 10),
                     Cat(Rep("c", 1), q) } }

translateWithGoogle(resp) ==
    IF ~resp.ok THEN Throw
    ELSE IF ~resp.valid THEN Throw
    ELSE LET translations == SelectSeq(resp.frags, LAMBDA f : f # << >>)
             translation == join(translations, << >>)
         IN IF translation = << >> \/ trim(translation) = << >>
            THEN Throw
            ELSE Return(translation, "A")

translateWithLibreTranslate(resp) ==
    IF ~resp.ok THEN Throw
    ELSE IF ~resp.hasText \/ resp.translatedText = << >>
            \/ trim(resp.translatedText) = << >>
         THEN Throw
         ELSE Return(resp.translatedText, "B")

QualityLength == 10

\* Accept with a case-sensitive comparison
AcceptCaseSensitive(translation, cleanText) ==
    /\ translation # << >>
    /\ translation # cleanText
    /\ StrLen(translation) > QualityLength

\* Accept without the length test
AcceptAnyLength(translation, cleanText) ==
    /\ translation # << >>
    /\ toLowerCase(translation) # toLowerCase(cleanText)

\* "Verify translation quality": the test both providers' results go through
Accept(translation, cleanText) ==
    /\ translation # << >>
    /\ toLowerCase(translation) # toLowerCase(cleanText)
    /\ StrLen(translation) > QualityLength

\* ------------------------------------------------------------------------
\* State
\* ------------------------------------------------------------------------

VARIABLES
    texts,    \* the input texts: one per translateToTurkish request
    stack,    \* stack[t]: the chain of translateToTurkish calls of request t,
              \* the innermost call last; empty once request t has settled
    ret,      \* ret[t]: what request t's promise settled to
    log,      \* log[t]: the provider calls of request t and their outcomes
    settled,  \* the requests in the order in which their promises settled
    out,      \* what translateBatch returned
    post,     \* the POST handler: request body, position, response
    summ,     \* summarizeAndTranslate / summarizeInEnglish: arguments, result
    strip,    \* stripHtml applied to a text, and to its own result
    retry     \* retryWithBackoff: arguments, loop position, timers, result

vars == << texts, stack, ret, log, settled, out, post, summ, strip, retry >>

\* The depth of nested calls at which the engine's call stack is exhausted
MaxStack == 3

A(k) == Rep("a", k)
Dot == Rep(".", 1)
Sp == Rep(" ", 1)

\* Input texts of translateToTurkish
ShortTexts ==
    { << >>,                                            \* empty
      Rep(" ", 3),                                      \* whitespace only
      Rep("<b>", 1) \o Rep("</b>", 1),                  \* markup only
      A(4),                                             \* cleans to < 10 chars
      Rep("A", 1) \o A(11),                             \* a plain title
      Rep("<b>", 1) \o A(6) \o Rep(" ", 2) \o A(5) \o Rep("</b>", 1),
      A(12) \o Rep("|", 1) \o A(3),
      Rep("<script>x()</script>", 1) \o A(5) \o Sp \o Rep("http://t.co/x", 1) \o A(3)
          \o Sp \o A(6) \o Sp \o Rep("Read more:", 1) }
LongTexts ==
    { \* two sentences, two chunks
      A(300) \o Dot \o Sp \o A(300) \o Dot,
      \* text after the last terminator
      A(300) \o Dot \o Sp \o A(300) \o Dot \o Sp \o A(20),
      \* a second chunk that cleans to fewer than 10 characters
      A(497) \o Dot \o Sp \o A(3) \o Dot,
      \* one sentence longer than a chunk, and a text with no terminator
      A(520) \o Dot,
      A(600),
      A(20) \o Dot \o Sp \o A(520) \o Dot }
Texts == ShortTexts \cup LongTexts

Frame(text) ==
    [text |-> text, cleanText |-> << >>, chunks |-> << >>, i |-> 0,
     translatedChunks |-> << >>, pc |-> "start"]

Pending == [kind |-> "pending", val |-> << >>, src |-> "none"]
Tasks == DOMAIN texts
Top(t) == stack[t][Len(stack[t])]
Event(e, arg, ok, t) ==
    [ev |-> e, arg |-> arg, ok |-> ok, depth |-> Len(stack[t])]

\* The innermost call of request t completes with outcome o: its caller's await
\* continues with the value, or throws into the caller's catch; the outermost
\* call settles the request's promise
Settle(t, o) ==
    LET d == Len(stack[t])
    IN IF d = 1
       THEN /\ stack' = [stack EXCEPT ![t] = << >>]
            /\ ret' = [ret EXCEPT ![t] =
                         [kind |-> IF o.kind = "return" THEN "resolved" ELSE "rejected",
                          val |-> o.val, src |-> o.src]]
            /\ settled' = Append(settled, t)
       ELSE /\ stack' = [stack EXCEPT ![t] =
                 [SubSeq(stack[t], 1, d - 1) EXCEPT ![d - 1] =
                     IF o.kind = "return"
                     THEN [@ EXCEPT !.translatedChunks = Append(@, o.val),
                                    !.pc = "resumed"]
                     ELSE [@ EXCEPT !.pc = "caught"]]]
            /\ UNCHANGED << ret, settled >>

\* The call of translateToTurkish(text) as the innermost call of request t
Call(t, text, parent) ==
    stack' = [stack EXCEPT ![t] = Append(parent, Frame(text))]

\* a catch that throws the error again
CatchRethrows(text) == Throw

\* The catch of translateToTurkish
CatchHandler(text) == Return(stripHtml(text), "catch")

\* What the catch can come to while the call stack is exhausted: stripHtml
\* runs, or cheerio overflows in it and its own catch answers, or the catch
\* overflows too and the call throws
ExhaustedCatch(text) ==
    { CatchHandler(text), Return(stripHtmlFallback(text), "catch"), Throw }

\* ------------------------------------------------------------------------
\* translateToTurkish
\* ------------------------------------------------------------------------

Others == << out, post, summ, strip, retry >>

\* a truthy value that is not a string, such as the number 5 in an untyped
\* caller's array: the static type of text is erased at run time
NotAString == << [s |-> "#5", n |-> 1] >>

\* What the call comes to for such a value: text.trim is not a function, the
\* catch runs stripHtml on the value, and either cheerio takes the value and
\* yields no text, or it throws and so does html.replace in the catch of
\* stripHtml
NonStringCatch == { Return(<< >>, "catch"), Throw }

\* an entry that returns the cleaned text, not the given text, when nothing is
\* left of it
EnterReturnsCleaned(t) ==
    /\ stack[t] # << >>
    /\ Top(t).pc = "start"
    /\ Len(stack[t]) < MaxStack
    /\ LET text == Top(t).text
           cleanText == stripHtml(text)
           d == Len(stack[t])
       IN IF text = NotAString
          THEN (\E o \in NonStringCatch : Settle(t, o)) /\ UNCHANGED log
          ELSE IF text = << >> \/ trim(text) = << >>
          THEN Settle(t, Return(text, "raw")) /\ UNCHANGED log
          ELSE IF cleanText = << >> \/ trim(cleanText) = << >>
          THEN Settle(t, Return(cleanText, "raw")) /\ UNCHANGED log
          ELSE IF StrLen(cleanText) > maxChunkSize
          THEN LET chunks == BuildChunks(cleanText)
                   me == [Top(t) EXCEPT !.cleanText = cleanText, !.chunks = chunks,
                                        !.i = 1, !.pc = "chunk"]
               IN /\ Call(t, chunks[1], [stack[t] EXCEPT ![d] = me])
                  /\ UNCHANGED << ret, settled, log >>
          ELSE /\ stack' = [stack EXCEPT ![t][d] =
                              [@ EXCEPT !.cleanText = cleanText, !.pc = "A"]]
               /\ log' = [log EXCEPT ![t] = Append(@, Event("callA", cleanText, TRUE, t))]
               /\ UNCHANGED << ret, settled >>
    /\ UNCHANGED << texts, Others >>

\* A call runs from its entry to its first await or to its return
Enter(t) ==
    /\ stack[t] # << >>
    /\ Top(t).pc = "start"
    /\ Len(stack[t]) < MaxStack
    /\ LET text == Top(t).text
           cleanText == stripHtml(text)
           d == Len(stack[t])
       IN IF text = NotAString
          THEN (\E o \in NonStringCatch : Settle(t, o)) /\ UNCHANGED log
          ELSE IF text = << >> \/ trim(text) = << >>
          THEN Settle(t, Return(text, "raw")) /\ UNCHANGED log
          ELSE IF cleanText = << >> \/ trim(cleanText) = << >>
          THEN Settle(t, Return(text, "raw")) /\ UNCHANGED log
          ELSE IF StrLen(cleanText) > maxChunkSize
          THEN LET chunks == BuildChunks(cleanText)
                   me == [Top(t) EXCEPT !.cleanText = cleanText, !.chunks = chunks,
                                        !.i = 1, !.pc = "chunk"]
               IN /\ Call(t, chunks[1], [stack[t] EXCEPT ![d] = me])
                  /\ UNCHANGED << ret, settled, log >>
          ELSE /\ stack' = [stack EXCEPT ![t][d] =
                              [@ EXCEPT !.cleanText = cleanText, !.pc = "A"]]
               /\ log' = [log EXCEPT ![t] = Append(@, Event("callA", cleanText, TRUE, t))]
               /\ UNCHANGED << ret, settled >>
    /\ UNCHANGED << texts, Others >>

\* The recursion has used the call stack up: the engine raises a RangeError in
\* the call, and its catch runs with the stack exhausted
Overflow(t) ==
    /\ stack[t] # << >>
    /\ Top(t).pc = "start"
    /\ Len(stack[t]) >= MaxStack
    /\ \E o \in ExhaustedCatch(Top(t).text) : Settle(t, o)
    /\ log' = [log EXCEPT ![t] = Append(@, Event("overflow", Top(t).text, FALSE, t))]
    /\ UNCHANGED << texts, Others >>

\* The awaited recursive call rejected: the catch of the caller. A caller next
\* to the exhausted depth may run its catch before the stack has unwound
Catch(t) ==
    /\ stack[t] # << >>
    /\ Top(t).pc = "caught"
    /\ \E o \in (IF Len(stack[t]) > 1 /\ Len(stack[t]) >= MaxStack - 1
                 THEN ExhaustedCatch(Top(t).text)
                 ELSE { CatchHandler(Top(t).text) }) : Settle(t, o)
    /\ UNCHANGED << texts, log, Others >>

\* The awaited recursive call returned: the next chunk, or the joined result
Resume(t) ==
    /\ stack[t] # << >>
    /\ Top(t).pc = "resumed"
    /\ LET f == Top(t)
           d == Len(stack[t])
       IN IF f.i < Len(f.chunks)
          THEN /\ Call(t, f.chunks[f.i + 1],
                       [stack[t] EXCEPT ![d] = [f EXCEPT !.i = f.i + 1, !.pc = "chunk"]])
               /\ UNCHANGED << ret, settled >>
          ELSE Settle(t, Return(join(f.translatedChunks, Sp), "join"))
    /\ UNCHANGED << texts, log, Others >>

\* a chain that goes on to LibreTranslate whatever the Google call gave
GoogleSettlesThenLibre(t) ==
    /\ stack[t] # << >>
    /\ Top(t).pc = "A"
    /\ \E resp \in GoogleResponses(Top(t).cleanText) :
         LET r == translateWithGoogle(resp)
             cleanText == Top(t).cleanText
             ok == r.kind = "return" /\ Accept(r.val, cleanText)
             e == Event(IF r.kind = "return" THEN "retA" ELSE "throwA", r.val, ok, t)
         IN /\ stack' = [stack EXCEPT ![t][Len(stack[t])].pc = "B"]
            /\ log' = [log EXCEPT ![t] = @ \o << e, Event("callB", cleanText, TRUE, t) >>]
            /\ UNCHANGED << ret, settled >>
    /\ UNCHANGED << texts, Others >>

\* The Google call of request t settles
GoogleSettles(t) ==
    /\ stack[t] # << >>
    /\ Top(t).pc = "A"
    /\ \E resp \in GoogleResponses(Top(t).cleanText) :
         LET r == translateWithGoogle(resp)
             cleanText == Top(t).cleanText
             ok == r.kind = "return" /\ Accept(r.val, cleanText)
             e == Event(IF r.kind = "return" THEN "retA" ELSE "throwA", r.val, ok, t)
         IN IF ok
            THEN /\ Settle(t, r)
                 /\ log' = [log EXCEPT ![t] = Append(@, e)]
            ELSE /\ stack' = [stack EXCEPT ![t][Len(stack[t])].pc = "B"]
                 /\ log' = [log EXCEPT ![t] = @ \o << e, Event("callB", cleanText, TRUE, t) >>]
                 /\ UNCHANGED << ret, settled >>
    /\ UNCHANGED << texts, Others >>

\* The LibreTranslate call of request t settles
LibreSettles(t) ==
    /\ stack[t] # << >>
    /\ Top(t).pc = "B"
    /\ \E resp \in LibreResponses(Top(t).cleanText) :
         LET r == translateWithLibreTranslate(resp)
             cleanText == Top(t).cleanText
             ok == r.kind = "return" /\ Accept(r.val, cleanText)
             e == Event(IF r.kind = "return" THEN "retB" ELSE "throwB", r.val, ok, t)
         IN /\ IF ok
               THEN Settle(t, r)
               ELSE Settle(t, Return(cleanText, "passthrough"))
            /\ log' = [log EXCEPT ![t] = Append(@, e)]
    /\ UNCHANGED << texts, Others >>

Idle == [pc |-> "idle"]

\* One translateToTurkish(text) request
Init ==
    /\ \E x \in Texts : texts = << x >>
    /\ stack = [t \in Tasks |-> << Frame(texts[t]) >>]
    /\ ret = [t \in Tasks |-> Pending]
    /\ log = [t \in Tasks |-> << >>]
    /\ settled = << >>
    /\ out = [pc |-> "idle", val |-> << >>]
    /\ post = Idle
    /\ summ = Idle
    /\ strip = Idle
    /\ retry = Idle

Next ==
    \/ \E t \in Tasks : Enter(t)
    \/ \E t \in Tasks : Overflow(t)
    \/ \E t \in Tasks : Catch(t)
    \/ \E t \in Tasks : Resume(t)
    \/ \E t \in Tasks : GoogleSettles(t)
    \/ \E t \in Tasks : LibreSettles(t)

Spec == Init /\ [][Next]_vars

\* ------------------------------------------------------------------------
\* Properties of translateToTurkish
\* ------------------------------------------------------------------------

Resolved(t) == ret[t].kind = "resolved"
Sanitized(t) == stripHtml(texts[t])
\* request t goes to the providers directly: its sanitized text is not empty
\* and not longer than a chunk
NonChunked(t) ==
    /\ trim(texts[t]) # << >>
    /\ Sanitized(t) # << >>
    /\ StrLen(Sanitized(t)) <= maxChunkSize
IsStr(v) == /\ v \in Seq([s : STRING, n : Nat])
            /\ \A i \in DOMAIN v : v[i].n > 0

\* C1: whatever the text and whatever the providers do, the promise of
\* translateToTurkish never rejects: once the call has ended, it has resolved
\* with a string.
C1_NeverThrows ==
    \A t \in Tasks :
        /\ ret[t].kind # "rejected"
        /\ stack[t] = << >> => (Resolved(t) /\ IsStr(ret[t].val))

\* C1 witness: a request that resolved through the catch of the outermost call,
\* after the recursion exhausted the stack and an inner call threw.
C1_Witness ==
    /\ Resolved(1) /\ ret[1].src = "catch"
    /\ \E i \in DOMAIN log[1] : log[1][i].ev = "overflow"

\* a provider result fails the acceptance test against clean
Fails(e, clean) ==
    \/ e.ev \in {"throwA", "throwB"}
    \/ /\ e.ev \in {"retA", "retB"}
       /\ \/ e.arg = << >>
          \/ toLowerCase(e.arg) = toLowerCase(clean)
          \/ StrLen(e.arg) <= 10

\* every provider call of request t has failed, and there was one
AllCallsFailed(t) ==
    /\ \E i \in DOMAIN log[t] : log[t][i].ev = "callA"
    /\ \A i \in DOMAIN log[t] :
         log[t][i].ev \in {"retA", "retB", "throwA", "throwB"} => ~log[t][i].ok

\* C2: when both providers fail on every call of a request, the request
\* returns the sanitized input stripHtml(text), unchanged.
C2_PassthroughIsSanitized ==
    \A t \in Tasks :
        (Resolved(t) /\ AllCallsFailed(t)) => ret[t].val = Sanitized(t)

\* C3: in a non-chunked request, a Google result that equals the sanitized
\* text but for the case, or is 10 characters or shorter, or a Google call
\* that throws, is not what the request returns: LibreTranslate is called next,
\* with the same sanitized text.
C3_RejectedGoogleThenLibre ==
    \A t \in Tasks : \A i \in DOMAIN log[t] :
        (NonChunked(t) /\ log[t][i].ev \in {"retA", "throwA"}
                       /\ Fails(log[t][i], Sanitized(t)))
        => /\ i < Len(log[t])
           /\ log[t][i + 1].ev = "callB"
           /\ log[t][i + 1].arg = Sanitized(t)
           /\ ret[t].src # "A"

\* C3 witness: Google echoed the text in another case and LibreTranslate was
\* called with the sanitized text.
C3_Witness ==
    /\ NonChunked(1) /\ Len(log[1]) >= 3
    /\ log[1][2].ev = "retA"
    /\ log[1][2].arg # Sanitized(1)
    /\ toLowerCase(log[1][2].arg) = toLowerCase(Sanitized(1))
    /\ log[1][3].ev = "callB" /\ log[1][3].arg = Sanitized(1)

\* C4: a non-chunked request that returns a provider's string returns one that
\* is not empty, is longer than 10 characters and differs from the sanitized
\* text even when case is ignored; a provider result failing one of the three
\* is returned only if it is the passthrough value.
C4_ReturnedTranslationAccepted ==
    \A t \in Tasks :
        (NonChunked(t) /\ Resolved(t))
        => /\ (ret[t].src \in {"A", "B"}
                => /\ ret[t].val # << >>
                   /\ StrLen(ret[t].val) > 10
                   /\ toLowerCase(ret[t].val) # toLowerCase(Sanitized(t)))
           /\ \A i \in DOMAIN log[t] :
                (/\ log[t][i].ev \in {"retA", "retB"}
                 /\ Fails(log[t][i], Sanitized(t))
                 /\ ret[t].val = log[t][i].arg)
                => (ret[t].val = Sanitized(t) /\ ret[t].src = "passthrough")

\* C4 witness: a non-chunked request returned the result of LibreTranslate
\* after Google's result of exactly 10 characters was rejected.
C4_Witness ==
    /\ NonChunked(1) /\ Resolved(1) /\ ret[1].src = "B"
    /\ \E i \in DOMAIN log[1] : log[1][i].ev = "retA" /\ StrLen(log[1][i].arg) = 10

\* C6: the chunks of a sanitized text longer than 500 characters, put together
\* in order, are the sanitized text: nothing of it is left out.
C6_ChunksCoverText ==
    \A t \in Tasks : \A d \in DOMAIN stack[t] :
        stack[t][d].chunks # << >>
        => join(stack[t][d].chunks, << >>) = stack[t][d].cleanText

\* C7: the recursion ends: a recursive call never has the sanitized text of its
\* caller to translate (such a call would make the same call again, without
\* end), so every chain of calls comes to the providers or to the passthrough.
C7_RecursionEnds ==
    \A t \in Tasks : \A d \in DOMAIN stack[t] :
        d > 1 => stripHtml(stack[t][d].text) # stack[t][d - 1].cleanText

\* C13: every chunk of a sanitized text longer than 500 characters is at most
\* 500 characters long, also when one sentence alone is longer than that.
C13_ChunksWithinLimit ==
    \A t \in Tasks : \A d \in DOMAIN stack[t] :
        \A k \in DOMAIN stack[t][d].chunks :
            StrLen(stack[t][d].chunks[k]) <= maxChunkSize

\* C14: a non-chunked request calls Google first, with the sanitized text, and
\* at most once; it calls LibreTranslate at most once, and only right after
\* the Google call threw or gave a result that was rejected, never after an
\* accepted Google result; it ends right after an accepted result, or after
\* the LibreTranslate call failed, and calls no provider after that.
C14_ProviderOrder ==
    \A t \in Tasks :
        NonChunked(t)
        => LET l == log[t]
           IN /\ \A i \in DOMAIN l :
                    /\ l[i].ev = "callA" => (i = 1 /\ l[i].arg = Sanitized(t))
                    /\ l[i].ev \in {"retA", "throwA"} => i = 2
                    /\ l[i].ev = "callB"
                       => (/\ i = 3
                           /\ l[1].ev = "callA"
                           /\ l[2].ev \in {"retA", "throwA"}
                           /\ Fails(l[2], Sanitized(t)))
                    /\ l[i].ev \in {"retB", "throwB"} => i = 4
                    /\ l[i].ev \in {"callA", "retA", "throwA", "callB", "retB", "throwB"}
              /\ Resolved(t)
                 => (/\ stack[t] = << >>
                     /\ \/ Len(l) = 2 /\ ~Fails(l[2], Sanitized(t)) /\ ret[t].src = "A"
                        \/ Len(l) = 4 /\ ~Fails(l[4], Sanitized(t)) /\ ret[t].src = "B"
                        \/ Len(l) = 4 /\ Fails(l[4], Sanitized(t))
                                      /\ ret[t].src = "passthrough")
              /\ ~Resolved(t) => Len(l) \in {0, 1, 3}

\* C14 witness: Google threw, LibreTranslate was called next and its result
\* was accepted and returned
C14_Witness ==
    /\ NonChunked(1) /\ Resolved(1) /\ Len(log[1]) = 4
    /\ log[1][1].ev = "callA" /\ log[1][2].ev = "throwA"
    /\ log[1][3].ev = "callB" /\ log[1][4].ev = "retB" /\ log[1][4].ok
    /\ ret[1].val = log[1][4].arg

\* C19: a request whose text is empty or blank, or whose sanitized text is
\* empty (fewer than 10 characters are left of it), calls neither provider
\* and returns the text it was given, unchanged.
C19_NothingToTranslate ==
    \A t \in Tasks :
        (texts[t] = << >> \/ trim(texts[t]) = << >> \/ Sanitized(t) = << >>)
        => /\ log[t] = << >>
           /\ Len(stack[t]) <= 1
           /\ stack[t] = << >>
              => (Resolved(t) /\ ret[t].src = "raw" /\ ret[t].val = texts[t])

\* C19 witness: a text that is not blank, of which the cleaning leaves fewer
\* than 10 characters, returned as it was given with no provider call
C19_Witness ==
    /\ Resolved(1) /\ log[1] = << >>
    /\ trim(texts[1]) # << >> /\ Sanitized(1) = << >>
    /\ CheerioText(texts[1]) # texts[1]
    /\ ret[1].val = texts[1]

\* C19, the other case: a blank text returned as it was given
C19_WitnessBlank ==
    /\ Resolved(1) /\ log[1] = << >>
    /\ texts[1] # << >> /\ trim(texts[1]) = << >>
    /\ ret[1].val = texts[1]

\* request t is chunked: its sanitized text is longer than a chunk
Chunked(t) == trim(texts[t]) # << >> /\ StrLen(Sanitized(t)) > maxChunkSize

\* the chunk goes to the providers: it is not blank and not empty when cleaned
NeedsProvider(chunk) == trim(chunk) # << >> /\ stripHtml(chunk) # << >>

\* the texts of the Google calls of request t, in the order of the calls
GoogleCallArgs(t) ==
    LET calls == SelectSeq(log[t], LAMBDA e : e.ev = "callA")
    IN [i \in DOMAIN calls |-> calls[i].arg]

\* one provider call at a time, chunk after chunk: a call is the last event
\* or is followed by its own outcome, the Google calls have the cleaned chunks
\* in chunk order, and a call that waits for chunk i holds i - 1 results
OneAtATime(t) ==
    LET l == log[t]
        toCall == SelectSeq(BuildChunks(Sanitized(t)), NeedsProvider)
        args == GoogleCallArgs(t)
    IN /\ \A i \in DOMAIN l :
             /\ (l[i].ev = "callA" /\ i < Len(l)) => l[i + 1].ev \in {"retA", "throwA"}
             /\ (l[i].ev = "callB" /\ i < Len(l)) => l[i + 1].ev \in {"retB", "throwB"}
             /\ l[i].ev \in {"retA", "throwA"} => (i > 1 /\ l[i - 1].ev = "callA")
             /\ l[i].ev \in {"retB", "throwB"} => (i > 1 /\ l[i - 1].ev = "callB")
       /\ Len(args) <= Len(toCall)
       /\ \A k \in DOMAIN args : args[k] = stripHtml(toCall[k])
       /\ \A d \in DOMAIN stack[t] :
             LET f == stack[t][d]
             IN /\ f.pc = "chunk" => (d < Len(stack[t]) /\ Len(f.translatedChunks) = f.i - 1
                                      /\ stack[t][d + 1].text = f.chunks[f.i])
                /\ f.pc = "resumed" => Len(f.translatedChunks) = f.i
                /\ f.pc \in {"A", "B"} => d = Len(stack[t])

RECURSIVE ChunkResults(_, _)
\* what the provider events l say the calls for the chunks returned, in chunk
\* order; ok is FALSE when the events are not those of these chunks
ChunkResults(chunks, l) ==
    IF chunks = << >> THEN [ok |-> l = << >>, vals |-> << >>]
    ELSE LET c == chunks[1]
             cc == stripHtml(c)
             n == IF ~NeedsProvider(c) THEN 0
                  ELSE IF Len(l) >= 2 /\ l[2].ev = "retA" /\ ~Fails(l[2], cc) THEN 2
                  ELSE 4
             v == IF n = 0 THEN c
                  ELSE IF n = 2 THEN l[2].arg
                  ELSE IF Len(l) >= 4 /\ l[4].ev = "retB" /\ ~Fails(l[4], cc) THEN l[4].arg
                  ELSE cc
             wellFormed ==
                 /\ StrLen(cc) <= maxChunkSize
                 /\ Len(l) >= n
                 /\ n >= 2 => (/\ l[1].ev = "callA" /\ l[1].arg = cc
                               /\ l[2].ev \in {"retA", "throwA"})
                 /\ n = 4 => (/\ l[3].ev = "callB" /\ l[3].arg = cc
                              /\ l[4].ev \in {"retB", "throwB"})
             rest == IF wellFormed
                     THEN ChunkResults(Tail(chunks), SubSeq(l, n + 1, Len(l)))
                     ELSE [ok |-> FALSE, vals |-> << >>]
         IN [ok |-> wellFormed /\ rest.ok, vals |-> << v >> \o rest.vals]

\* the recursion of request t has exhausted the call stack
Overflowed(t) == \E i \in DOMAIN log[t] : log[t][i].ev = "overflow"

\* the chunked request t, once it has returned, has returned from the end of
\* its chunk loop, with the results of its chunks joined with one blank, in
\* chunk order (the results are read from the provider events when every
\* chunk came to the providers or was returned raw)
JoinedInOrder(t) ==
    (Chunked(t) /\ Resolved(t))
    => /\ ret[t].src = "join"
       /\ ~Overflowed(t)
          => LET r == ChunkResults(BuildChunks(Sanitized(t)), log[t])
             IN r.ok /\ ret[t].val = join(r.vals, Sp)

C15_OneAtATimeOnly == \A t \in Tasks : OneAtATime(t)

\* the part of C15 on the result, for the requests whose recursion ends
C15_JoinedWhenRecursionEnds ==
    \A t \in Tasks : ~Overflowed(t) => JoinedInOrder(t)

\* a chunked request with two chunks that has returned their results joined
C15_JoinedReached ==
    /\ Chunked(1) /\ Resolved(1) /\ ret[1].src = "join"
    /\ Len(GoogleCallArgs(1)) = 2
    /\ \E i \in DOMAIN log[1] : log[1][i].ev = "retB" /\ log[1][i].ok

\* ------------------------------------------------------------------------
\* translateBatch
\* ------------------------------------------------------------------------

Title == Rep("A", 1) \o A(11)
Markup == Rep("<b>", 1) \o A(6) \o Rep(" ", 2) \o A(5) \o Rep("</b>", 1)

\* Input sequences of translateBatch
BatchInputs ==
    { << >>,
      << Title >>,
      << Title, Markup >>,
      << Markup, Title >>,
      << Title, Title >>,
      << A(4), Title, << >> >>,
      << A(300) \o Dot \o Sp \o A(300) \o Dot, Title >>,
      << Title, A(600) >> }

\* Promise.all collecting the values as the promises settle, not by index
PromiseAllInCompletionOrder(rets, order) ==
    IF \E t \in DOMAIN rets : rets[t].kind = "rejected" THEN Throw
    ELSE IF \A t \in DOMAIN rets : rets[t].kind = "resolved"
         THEN Return([i \in DOMAIN rets |-> rets[order[i]].val], "all")
         ELSE Pending

\* Promise.all over the promises of the requests: rejects once one of them has
\* rejected, resolves with the values by index once all have resolved
PromiseAll(rets, order) ==
    IF \E t \in DOMAIN rets : rets[t].kind = "rejected" THEN Throw
    ELSE IF \A t \in DOMAIN rets : rets[t].kind = "resolved"
         THEN Return([i \in DOMAIN rets |-> rets[i].val], "all")
         ELSE Pending

\* a catch that keeps the results of the items that have resolved
BatchReturnMixes ==
    /\ out.pc = "awaiting"
    /\ LET all == PromiseAll(ret, settled)
       IN /\ all.kind # "pending"
          /\ out' = [pc |-> "returned",
                     val |-> IF all.kind = "return" THEN all.val
                             ELSE [i \in DOMAIN texts |->
                                     IF ret[i].kind = "resolved" THEN ret[i].val
                                     ELSE texts[i]]]
    /\ UNCHANGED << texts, stack, ret, log, settled, post, summ, strip, retry >>

\* translateBatch continues after its await and returns
BatchReturn ==
    /\ out.pc = "awaiting"
    /\ LET all == PromiseAll(ret, settled)
       IN /\ all.kind # "pending"
          /\ out' = [pc |-> "returned",
                     val |-> IF all.kind = "return" THEN all.val ELSE texts]
    /\ UNCHANGED << texts, stack, ret, log, settled, post, summ, strip, retry >>

\* One translateBatch(texts) call: texts.map has made the calls
InitBatch ==
    /\ texts \in BatchInputs
    /\ stack = [t \in Tasks |-> << Frame(texts[t]) >>]
    /\ ret = [t \in Tasks |-> Pending]
    /\ log = [t \in Tasks |-> << >>]
    /\ settled = << >>
    /\ out = [pc |-> "awaiting", val |-> << >>]
    /\ post = Idle
    /\ summ = Idle
    /\ strip = Idle
    /\ retry = Idle

NextBatch ==
    \/ \E t \in Tasks : Enter(t)
    \/ \E t \in Tasks : Overflow(t)
    \/ \E t \in Tasks : Catch(t)
    \/ \E t \in Tasks : Resume(t)
    \/ \E t \in Tasks : GoogleSettles(t)
    \/ \E t \in Tasks : LibreSettles(t)
    \/ BatchReturn

SpecBatch == InitBatch /\ [][NextBatch]_vars

\* what item t of a batch comes to, told from its text and its own provider
\* calls: the raw text when nothing is left to translate, the accepted provider
\* result, or else the sanitized text
ItemResult(t) ==
    IF trim(texts[t]) = << >> \/ Sanitized(t) = << >> THEN texts[t]
    ELSE IF log[t] # << >> /\ log[t][Len(log[t])].ev \in {"retA", "retB"}
            /\ ~Fails(log[t][Len(log[t])], Sanitized(t))
         THEN log[t][Len(log[t])].arg
         ELSE Sanitized(t)

\* C5: whatever the order in which the items' translations run and complete,
\* translateBatch returns as many elements as it was given, and the i-th is the
\* result of translating texts[i]: the provider result accepted for item i, or
\* item i's own sanitized text when its providers failed.
C5_BatchKeepsOrder ==
    out.pc = "returned"
    => /\ Len(out.val) = Len(texts)
       /\ \A i \in Tasks :
            /\ out.val[i] = ret[i].val
            /\ (NonChunked(i) \/ StrLen(Sanitized(i)) = 0) => out.val[i] = ItemResult(i)

\* C5 witness: the second item completed first, its providers failed and the
\* first item was translated; each result is at its own position.
C5_Witness ==
    /\ out.pc = "returned" /\ Len(texts) = 2
    /\ settled = << 2, 1 >>
    /\ ret[1].src = "A" /\ ret[2].src = "passthrough"
    /\ out.val[2] = Sanitized(2) /\ out.val[1] # Sanitized(1)
    /\ Sanitized(1) # Sanitized(2)

\* Input sequences of translateBatch as an untyped caller can pass them
UntypedBatchInputs ==
    { << Title >>,
      << Title, Markup >>,
      << NotAString >>,
      << Title, NotAString >>,
      << NotAString, Title >>,
      << Markup, NotAString, Title >>,
      << A(300) \o Dot \o Sp \o A(300) \o Dot, NotAString >>,
      << NotAString, A(600) >> }

\* One translateBatch(texts) call of an untyped caller
InitBatchUntyped ==
    /\ texts \in UntypedBatchInputs
    /\ stack = [t \in Tasks |-> << Frame(texts[t]) >>]
    /\ ret = [t \in Tasks |-> Pending]
    /\ log = [t \in Tasks |-> << >>]
    /\ settled = << >>
    /\ out = [pc |-> "awaiting", val |-> << >>]
    /\ post = Idle
    /\ summ = Idle
    /\ strip = Idle
    /\ retry = Idle

SpecBatchUntyped == InitBatchUntyped /\ [][NextBatch]_vars

\* C18: translateBatch does not throw, and what it returns is either the
\* input sequence itself, when the combined operation rejected (an item
\* rejected), or the sequence of the results of all the items; it is never a
\* sequence with results at some positions and inputs at others.
C18_BatchAllOrNothing ==
    /\ out.pc \in {"awaiting", "returned"}
    /\ out.pc = "returned"
       => IF \E t \in Tasks : ret[t].kind = "rejected"
          THEN out.val = texts
          ELSE /\ Len(out.val) = Len(texts)
               /\ \A i \in Tasks : Resolved(i) /\ out.val[i] = ret[i].val

\* C18 witness: the first item was translated by Google, the second rejected,
\* and the batch returned the inputs, not the translation of the first
C18_Witness ==
    /\ out.pc = "returned" /\ Len(texts) = 2
    /\ ret[1].kind = "resolved" /\ ret[1].src = "A"
    /\ ret[2].kind = "rejected"
    /\ out.val = texts /\ out.val[1] # ret[1].val

\* C18, the other case: no item rejected and the results are returned
C18_WitnessResults ==
    /\ out.pc = "returned" /\ Len(texts) = 3
    /\ \A i \in Tasks : Resolved(i)
    /\ out.val # texts /\ out.val[2] = << >>

\* ------------------------------------------------------------------------
\* POST /api/translate (route handler)
\* ------------------------------------------------------------------------

\* stripHtml of the route: the text content, whitespace collapsed, trimmed
routeStripHtml(html) ==
    Norm(trim(Norm(CollapseWhitespace(CheerioText(html)))))

Null == [kind |-> "null", val |-> << >>]
Value(v) == [kind |-> "string", val |-> v]

\* translateWithGoogle of the route: null on a failure status or a payload that
\* is no non-empty array, else the fragments put together (which may be '')
routeTranslateWithGoogle(resp) ==
    IF ~resp.ok THEN Null
    ELSE IF ~resp.valid THEN Null
    ELSE Value(join(SelectSeq(resp.frags, LAMBDA f : f # << >>), << >>))

\* The bodies a request may carry: no JSON, the JSON null, or an object whose
\* text is missing, a number or a string
Bodies ==
    { [kind |-> k, textType |-> "missing", text |-> << >>] : k \in {"unparsable", "null"} }
    \cup { [kind |-> "object", textType |-> y, text |-> << >>] : y \in {"missing", "number"} }
    \cup { [kind |-> "object", textType |-> "string", text |-> x] : x \in Texts }

\* request.json(): the body can be read once; reading it again throws
requestJson(body, bodyUsed) ==
    IF bodyUsed THEN Throw
    ELSE IF body.kind = "unparsable" THEN Throw
    ELSE Return(body, "json")

NoResponse ==
    [status |-> 0, error |-> FALSE, hasTranslation |-> FALSE, translation |-> << >>]
Response(status, error, hasTranslation, translation) ==
    [status |-> status, error |-> error, hasTranslation |-> hasTranslation,
     translation |-> translation]

\* !text || typeof text !== 'string' || text.trim().length === 0
InvalidText(body) ==
    \/ body.textType # "string"
    \/ body.text = << >>
    \/ trim(body.text) = << >>

\* The handler from its entry to its first await after request.json()
PostStart ==
    /\ post.pc = "start"
    /\ LET j == requestJson(post.body, post.bodyUsed)
       IN IF j.kind = "throw" \/ post.body.kind = "null"
          THEN post' = [post EXCEPT !.bodyUsed = TRUE, !.pc = "catch"]
          ELSE IF InvalidText(j.val)
          THEN post' = [post EXCEPT !.bodyUsed = TRUE, !.pc = "responded",
                          !.response = Response(400, TRUE, FALSE, << >>)]
          ELSE LET cleanText == routeStripHtml(j.val.text)
               IN IF trim(cleanText) = << >>
                  THEN post' = [post EXCEPT !.bodyUsed = TRUE, !.pc = "responded",
                                  !.response = Response(200, FALSE, TRUE, j.val.text)]
                  ELSE post' = [post EXCEPT !.bodyUsed = TRUE, !.pc = "fetch",
                                  !.cleanText = cleanText, !.calls = @ + 1]
    /\ UNCHANGED << texts, stack, ret, log, settled, out, summ, strip, retry >>

\* The provider call settles
PostFetch ==
    /\ post.pc = "fetch"
    /\ \E resp \in GoogleResponses(post.cleanText) :
         LET translation == routeTranslateWithGoogle(resp)
         IN IF translation.kind = "null" \/ translation.val = << >>
            THEN post' = [post EXCEPT !.pc = "catch", !.translation = translation]
            ELSE post' = [post EXCEPT !.pc = "responded", !.translation = translation,
                            !.response = Response(200, FALSE, TRUE,
                                                  routeStripHtml(translation.val))]
    /\ UNCHANGED << texts, stack, ret, log, settled, out, summ, strip, retry >>

\* The catch of the handler, which reads the body again
PostCatch ==
    /\ post.pc = "catch"
    /\ LET j == requestJson(post.body, post.bodyUsed)
       IN IF j.kind = "throw" \/ j.val.kind = "null" \/ j.val.textType # "string"
          THEN post' = [post EXCEPT !.pc = "thrown"]
          ELSE post' = [post EXCEPT !.pc = "responded", !.bodyUsed = TRUE,
                          !.response = Response(500, TRUE, TRUE,
                                                routeStripHtml(j.val.text))]
    /\ UNCHANGED << texts, stack, ret, log, settled, out, summ, strip, retry >>

\* One POST request
InitPost ==
    /\ texts = << >>
    /\ stack = << >>
    /\ ret = << >>
    /\ log = << >>
    /\ settled = << >>
    /\ out = [pc |-> "idle", val |-> << >>]
    /\ \E b \in Bodies :
         post = [pc |-> "start", body |-> b, bodyUsed |-> FALSE, cleanText |-> << >>,
                 calls |-> 0, translation |-> Null, response |-> NoResponse]
    /\ summ = Idle
    /\ strip = Idle
    /\ retry = Idle

NextPost ==
    \/ PostStart
    \/ PostFetch
    \/ PostCatch

SpecPost == InitPost /\ [][NextPost]_vars

PostEnded == post.pc \in {"responded", "thrown"}

\* C8: when the body carries a valid text whose sanitized form is not empty
\* and the provider fails, the handler answers 500 with an error and, as
\* translation, the sanitized original text; it does not throw.
C8_ProviderFailureAnswers500 ==
    (/\ PostEnded
     /\ post.calls = 1
     /\ (post.translation.kind = "null" \/ post.translation.val = << >>))
    => /\ post.pc = "responded"
       /\ post.response = Response(500, TRUE, TRUE, routeStripHtml(post.body.text))

\* an invalid input of the POST handler
InvalidInput(body) ==
    \/ body.kind = "unparsable"
    \/ body.kind = "object" /\ InvalidText(body)

\* C9: every invalid input (text missing, not a string, empty or whitespace
\* only, or a body that is no JSON) is answered with status 400 and an error,
\* and no provider call is made.
C9_InvalidInputAnswers400 ==
    (PostEnded /\ InvalidInput(post.body))
    => /\ post.pc = "responded"
       /\ post.response.status = 400 /\ post.response.error
       /\ post.calls = 0

\* ------------------------------------------------------------------------
\* summarizeAndTranslate, summarizeInEnglish
\* ------------------------------------------------------------------------

PositiveKeywords ==
    {"up", "rise", "gain", "bull", "surge", "rally", "boost", "grow", "positive",
     "profit", "success", "launch", "partner", "adoption"}
NegativeKeywords ==
    {"down", "fall", "drop", "bear", "crash", "decline", "loss", "negative", "hack",
     "scam", "fail", "lawsuit", "ban", "regulate"}

\* atoms that are no word characters (\W)
NonWordAtoms ==
    {" ", ".", "!", "?", "|"} \cup TagAtoms \cup ScriptAtoms \cup UrlAtoms
    \cup BoilerplateAtoms
IsWordAtom(a) == a \notin NonWordAtoms

RECURSIVE MatchFrom(_, _, _)
\* content.match(/\b(k1|k2|...)\b/i): is there, at or after run i, a keyword
\* with a word boundary on both sides
MatchFrom(content, keywords, i) ==
    IF i > Len(content) THEN FALSE
    ELSE IF /\ LowerAtom(content[i].s) \in keywords
            /\ content[i].n = 1
            /\ (i = 1 \/ ~IsWordAtom(content[i - 1].s))
            /\ (i = Len(content) \/ ~IsWordAtom(content[i + 1].s))
         THEN TRUE
         ELSE MatchFrom(content, keywords, i + 1)

\* `${title} ${text || ''}`.toLowerCase()
Content(title, hasText, text) ==
    toLowerCase(Cat(Cat(title, Sp), IF hasText THEN text ELSE << >>))

\* the two tests with the positive one last
SentimentPositiveLast(content) ==
    LET s1 == IF MatchFrom(content, NegativeKeywords, 1) THEN "negative" ELSE "neutral"
    IN IF MatchFrom(content, PositiveKeywords, 1) THEN "positive" ELSE s1

\* a tagger with a fourth label for a text that matches both sets
SentimentMixed(content) ==
    IF MatchFrom(content, PositiveKeywords, 1) /\ MatchFrom(content, NegativeKeywords, 1)
    THEN "mixed"
    ELSE IF MatchFrom(content, PositiveKeywords, 1) THEN "positive"
    ELSE IF MatchFrom(content, NegativeKeywords, 1) THEN "negative"
    ELSE "neutral"

\* let sentiment = 'neutral'; if (positive match) ...; if (negative match) ...
Sentiment(content) ==
    LET s1 == IF MatchFrom(content, PositiveKeywords, 1) THEN "positive" ELSE "neutral"
    IN IF MatchFrom(content, NegativeKeywords, 1) THEN "negative" ELSE s1

W(word) == Rep(word, 1)

Titles ==
    { W("prices") \o Sp \o W("surge") \o Sp \o W("after") \o Sp \o W("rally"),
      W("hack") \o Sp \o W("causes") \o Sp \o W("crash"),
      W("quarterly") \o Sp \o W("report") \o Sp \o W("released"),
      W("Surge") \o Sp \o W("follows") \o Sp \o W("HACK") \o Dot,
      W("up") \o W("grade") \o Sp \o W("released"),
      W("up"),
      Rep("<b>", 1) \o W("profit") \o Rep(" ", 2) \o W("warning") \o Rep("</b>", 1),
      A(300) \o Dot \o Sp \o A(300) \o Dot,
      A(520) \o Dot }
\* the optional second argument: [has |-> FALSE] is the argument left out
Texts2 ==
    { [has |-> FALSE, text |-> << >>], [has |-> TRUE, text |-> << >>],
      [has |-> TRUE, text |-> W("grade") \o Sp \o W("loss") \o Dot],
      [has |-> TRUE, text |-> W("profit") \o W("s")] }

\* summarizeInEnglish(title, text)
SummarizeInEnglish ==
    /\ summ.pc = "start" /\ summ.fn = "en"
    /\ summ' = [summ EXCEPT !.pc = "done", !.summary = summ.title,
                  !.sentiment = Sentiment(Content(summ.title, summ.hasText, summ.text))]
    /\ UNCHANGED << texts, stack, ret, log, settled, out, post, strip, retry >>

\* summarizeAndTranslate(title, text) after its await of translateToTurkish
SummarizeAndTranslate ==
    /\ summ.pc = "start" /\ summ.fn = "tr"
    /\ ret[1].kind # "pending"
    /\ IF ret[1].kind = "rejected"
       THEN summ' = [summ EXCEPT !.pc = "done", !.summary = summ.title,
                       !.sentiment = "neutral"]
       ELSE LET translatedTitle == ret[1].val
            IN summ' = [summ EXCEPT !.pc = "done",
                 !.summary = IF translatedTitle # << >> /\ StrLen(translatedTitle) > 8
                             THEN translatedTitle ELSE summ.title,
                 !.sentiment = Sentiment(Content(summ.title, summ.hasText, summ.text))]
    /\ UNCHANGED << texts, stack, ret, log, settled, out, post, strip, retry >>

\* One call of summarizeAndTranslate ("tr") or summarizeInEnglish ("en")
InitSummary ==
    /\ \E fn \in {"tr", "en"}, title \in Titles, x \in Texts2 :
         /\ summ = [pc |-> "start", fn |-> fn, title |-> title, hasText |-> x.has,
                    text |-> x.text, summary |-> << >>, sentiment |-> "none"]
         /\ texts = IF fn = "tr" THEN << title >> ELSE << >>
    /\ stack = [t \in Tasks |-> << Frame(texts[t]) >>]
    /\ ret = [t \in Tasks |-> Pending]
    /\ log = [t \in Tasks |-> << >>]
    /\ settled = << >>
    /\ out = [pc |-> "idle", val |-> << >>]
    /\ post = Idle
    /\ strip = Idle
    /\ retry = Idle

NextSummary ==
    \/ \E t \in Tasks : Enter(t)
    \/ \E t \in Tasks : Overflow(t)
    \/ \E t \in Tasks : Catch(t)
    \/ \E t \in Tasks : Resume(t)
    \/ \E t \in Tasks : GoogleSettles(t)
    \/ \E t \in Tasks : LibreSettles(t)
    \/ SummarizeAndTranslate
    \/ SummarizeInEnglish

SpecSummary == InitSummary /\ [][NextSummary]_vars

\* the words of a string: its maximal runs of word characters, when they are
\* single atoms
WordsOf(str) ==
    { str[i].s : i \in { j \in DOMAIN str :
        /\ IsWordAtom(str[j].s) /\ str[j].n = 1
        /\ (j > 1 => ~IsWordAtom(str[j - 1].s))
        /\ (j < Len(str) => ~IsWordAtom(str[j + 1].s)) } }
\* the lower-cased concatenation of the arguments of the call
LoweredContent ==
    toLowerCase(Cat(summ.title, Cat(Sp, IF summ.hasText THEN summ.text ELSE << >>)))
HasNegative == WordsOf(LoweredContent) \cap NegativeKeywords # {}
HasPositive == WordsOf(LoweredContent) \cap PositiveKeywords # {}

\* C10: in both functions the sentiment is "negative" exactly when the
\* lower-cased title and body contain a negative keyword (a positive one or
\* not), "positive" exactly when they contain a positive and no negative
\* keyword, "neutral" exactly when they contain neither.
C10_SentimentRule ==
    summ.pc = "done"
    => /\ (summ.sentiment = "negative") <=> HasNegative
       /\ (summ.sentiment = "positive") <=> (HasPositive /\ ~HasNegative)
       /\ (summ.sentiment = "neutral") <=> (~HasPositive /\ ~HasNegative)

\* C10 witness: summarizeAndTranslate tagged a title that holds a positive and
\* a negative keyword as negative.
C10_Witness ==
    /\ summ.pc = "done" /\ summ.fn = "tr"
    /\ HasPositive /\ HasNegative
    /\ summ.sentiment = "negative"

\* C11: summarizeAndTranslate never throws: no error leaves the translateToTurkish
\* call inside it, a provider that throws is followed by the next provider or,
\* after the last one, by the sanitized original text, and the call resolves
\* with a summary that is a string and a sentiment that is positive, negative
\* or neutral.
C11_SummarizeNeverThrows ==
    summ.fn = "tr"
    => /\ ret[1].kind # "rejected"
       /\ \A i \in DOMAIN log[1] :
            log[1][i].ev = "throwA"
            => (/\ i < Len(log[1])
                /\ log[1][i + 1].ev = "callB"
                /\ log[1][i + 1].arg = log[1][i - 1].arg)
       /\ summ.pc = "done"
          => (/\ IsStr(summ.summary)
              /\ summ.sentiment \in {"positive", "negative", "neutral"}
              /\ (NonChunked(1) /\ log[1][Len(log[1])].ev = "throwB")
                 => summ.summary = Sanitized(1))

\* C11 witness: both providers threw for a title with markup, and the call
\* resolved with the sanitized title as summary and a sentiment.
C11_Witness ==
    /\ summ.fn = "tr" /\ summ.pc = "done"
    /\ Len(log[1]) = 4
    /\ log[1][2].ev = "throwA" /\ log[1][4].ev = "throwB"
    /\ summ.summary = Sanitized(1) /\ summ.summary # summ.title
    /\ summ.sentiment = "positive"

\* ------------------------------------------------------------------------
\* stripHtml applied twice
\* ------------------------------------------------------------------------

MaxRuns == 3

\* the pieces the inputs are made of: blanks, letters, a terminator, a word,
\* a character reference and a pipe
StripRuns ==
    { [s |-> " ", n |-> 2], [s |-> "a", n |-> 4], [s |-> "a", n |-> 9],
      [s |-> "A", n |-> 6], [s |-> ".", n |-> 1], [s |-> "surge", n |-> 1],
      [s |-> "&lt;b&gt;", n |-> 1], [s |-> "|", n |-> 1] }

StripInputs ==
    { Norm(q) : q \in UNION { [1..k -> StripRuns] : k \in 0..MaxRuns } } \cup ShortTexts

\* const once = stripHtml(input)
StripOnce ==
    /\ strip.pc = "input"
    /\ strip' = [strip EXCEPT !.pc = "once", !.once = stripHtml(strip.input)]
    /\ UNCHANGED << texts, stack, ret, log, settled, out, post, summ, retry >>

\* const twice = stripHtml(once)
StripTwice ==
    /\ strip.pc = "once"
    /\ strip' = [strip EXCEPT !.pc = "twice", !.twice = stripHtml(strip.once)]
    /\ UNCHANGED << texts, stack, ret, log, settled, out, post, summ, retry >>

InitStrip ==
    /\ texts = << >>
    /\ stack = << >>
    /\ ret = << >>
    /\ log = << >>
    /\ settled = << >>
    /\ out = [pc |-> "idle", val |-> << >>]
    /\ post = Idle
    /\ summ = Idle
    /\ \E x \in StripInputs :
         strip = [pc |-> "input", input |-> x, once |-> << >>, twice |-> << >>]
    /\ retry = Idle

NextStrip ==
    \/ StripOnce
    \/ StripTwice

SpecStrip == InitStrip /\ [][NextStrip]_vars

\* the text holds no tag, script, character reference, '|', URL or
\* boilerplate phrase
NoiseFree(str) ==
    \A i \in DOMAIN str :
        str[i].s \notin TagAtoms \cup ScriptAtoms \cup EntityAtoms \cup UrlAtoms
                         \cup BoilerplateAtoms \cup {"|"}

\* C12: for a text free of markup and noise, stripHtml applied to its own
\* result gives that result again, also when the result is the empty string
\* of a text that is shorter than 10 characters after cleaning.
C12_StripIdempotent ==
    (strip.pc = "twice" /\ NoiseFree(strip.input)) => strip.twice = strip.once

\* C12 witness: a noise-free text of 10 characters or more that the cleaning
\* shortens to less than 10, so that both applications give the empty string
C12_Witness ==
    /\ strip.pc = "twice" /\ NoiseFree(strip.input)
    /\ StrLen(strip.input) >= MinCleanLength
    /\ strip.once = << >> /\ strip.twice = << >>

\* C12, second case: a noise-free text that the first application changes
\* and the second leaves alone
C12_WitnessChanged ==
    /\ strip.pc = "twice" /\ NoiseFree(strip.input)
    /\ strip.once # << >> /\ strip.once # strip.input
    /\ strip.twice = strip.once

\* a text with a character reference: the second application changes it
C12_NoisyChanges ==
    /\ strip.pc = "twice" /\ ~NoiseFree(strip.input)
    /\ strip.twice # strip.once

\* ------------------------------------------------------------------------
\* retryWithBackoff
\* ------------------------------------------------------------------------

DefaultMaxRetries == 3
DefaultInitialDelay == 1000
MaxRetriesBound == 4

Undefined == "undefined"

\* what a call of fn can come to: a value, or an error
FnOutcomes ==
    { [kind |-> "return", val |-> "v1"], [kind |-> "return", val |-> "v2"],
      [kind |-> "throw", val |-> "e1"], [kind |-> "throw", val |-> "e2"] }

\* const delay = initialDelay * Math.pow(2, i)
Delay(initialDelay, i) == initialDelay * 2 ^ i

\* a retry that waits after the last failure too
WaitsAfterEveryFailure(i, maxRetries) == i < maxRetries

\* if (i < maxRetries - 1)
ShouldWait(i, maxRetries) == i < maxRetries - 1

\* a catch that keeps the first error
KeepsFirstError(lastError, error) == IF lastError = Undefined THEN error ELSE lastError

\* lastError = error as Error
NextLastError(lastError, error) == error

\* for (...; i < maxRetries; ...) { try { return await fn()
RetryCall ==
    /\ retry.pc = "loop"
    /\ retry.i < retry.maxRetries
    /\ retry' = [retry EXCEPT !.pc = "awaitFn"]
    /\ UNCHANGED << texts, stack, ret, log, settled, out, post, summ, strip >>

\* fn() gave a value: the helper returns it
RetryFnReturns ==
    /\ retry.pc = "awaitFn"
    /\ \E o \in { x \in FnOutcomes : x.kind = "return" } :
         retry' = [retry EXCEPT !.pc = "done",
                                !.attempts = Append(@, o),
                                !.result = [kind |-> "resolved", val |-> o.val]]
    /\ UNCHANGED << texts, stack, ret, log, settled, out, post, summ, strip >>

\* fn() threw: the catch keeps the error and arms the timer, or goes on to the
\* next round of the loop
RetryFnThrows ==
    /\ retry.pc = "awaitFn"
    /\ \E o \in { x \in FnOutcomes : x.kind = "throw" } :
         LET caught == [retry EXCEPT !.attempts = Append(@, o),
                                     !.lastError = NextLastError(@, o.val)]
         IN IF ShouldWait(retry.i, retry.maxRetries)
            THEN retry' = [caught EXCEPT !.pc = "sleeping",
                               !.waits = Append(@, Delay(retry.initialDelay, retry.i))]
            ELSE retry' = [caught EXCEPT !.pc = "loop", !.i = @ + 1]
    /\ UNCHANGED << texts, stack, ret, log, settled, out, post, summ, strip >>

\* the timer of the backoff fires
RetryTimerFires ==
    /\ retry.pc = "sleeping"
    /\ retry' = [retry EXCEPT !.pc = "loop", !.i = @ + 1,
                              !.now = @ + retry.waits[Len(retry.waits)]]
    /\ UNCHANGED << texts, stack, ret, log, settled, out, post, summ, strip >>

\* the loop has ended: throw lastError
RetryThrows ==
    /\ retry.pc = "loop"
    /\ retry.i >= retry.maxRetries
    /\ retry' = [retry EXCEPT !.pc = "done",
                              !.result = [kind |-> "rejected", val |-> retry.lastError]]
    /\ UNCHANGED << texts, stack, ret, log, settled, out, post, summ, strip >>

InitRetry ==
    /\ texts = << >>
    /\ stack = << >>
    /\ ret = << >>
    /\ log = << >>
    /\ settled = << >>
    /\ out = [pc |-> "idle", val |-> << >>]
    /\ post = Idle
    /\ summ = Idle
    /\ strip = Idle
    /\ \E m \in 0..MaxRetriesBound, d \in {DefaultInitialDelay, 250} :
         retry = [pc |-> "loop", maxRetries |-> m, initialDelay |-> d, i |-> 0,
                  lastError |-> Undefined, attempts |-> << >>, waits |-> << >>,
                  now |-> 0, result |-> [kind |-> "pending", val |-> Undefined]]

NextRetry ==
    \/ RetryCall
    \/ RetryFnReturns
    \/ RetryFnThrows
    \/ RetryTimerFires
    \/ RetryThrows

SpecRetry == InitRetry /\ [][NextRetry]_vars

\* the calls of fn that threw
Failed == SelectSeq(retry.attempts, LAMBDA o : o.kind = "throw")

\* the calls of fn made so far, the one in flight included
Invocations == Len(retry.attempts) + (IF retry.pc = "awaitFn" THEN 1 ELSE 0)

Min(a, b) == IF a < b THEN a ELSE b

\* C16: with the defaults fn is invoked at most 3 times and never after a call
\* that succeeded; the helper waits 1000 ms after the first failure and 2000 ms
\* after the second (initialDelay * 2^(k-1) after the k-th failure, whatever
\* the arguments) and does not wait after the last failed attempt.
C16_BackoffSchedule ==
    /\ \A k \in 1..(Invocations - 1) : retry.attempts[k].kind = "throw"
    /\ \A k \in DOMAIN retry.waits :
         retry.waits[k] = retry.initialDelay * 2 ^ (k - 1)
    /\ retry.maxRetries >= 1
       => Len(retry.waits) = Min(Len(Failed), retry.maxRetries - 1)
    /\ retry.pc = "sleeping" => Len(Failed) < retry.maxRetries
    /\ (retry.maxRetries = DefaultMaxRetries /\ retry.initialDelay = DefaultInitialDelay)
       => /\ Invocations <= 3
          /\ Len(retry.waits) <= 2
          /\ Len(Failed) >= 1 => retry.waits[1] = 1000
          /\ Len(Failed) >= 2 => retry.waits[2] = 2000
          /\ retry.result.kind = "rejected" => retry.now = 3000

\* C16 witness: with the defaults, three calls failed, with a wait of 1000 ms
\* and one of 2000 ms between them and none after the third
C16_Witness ==
    /\ retry.maxRetries = DefaultMaxRetries /\ retry.initialDelay = DefaultInitialDelay
    /\ retry.pc = "done" /\ Len(Failed) = 3
    /\ retry.waits = << 1000, 2000 >> /\ retry.now = 3000

\* C17: the helper resolves with the value of the first call of fn that
\* succeeds, if one of the maxRetries attempts does; otherwise it rejects with
\* the error of the last attempt, and for maxRetries >= 1 it rejects only
\* after exactly maxRetries failed calls.
C17_RetryResult ==
    LET n == Len(retry.attempts)
    IN /\ retry.result.kind = "resolved"
          => /\ n >= 1 /\ n <= retry.maxRetries
             /\ retry.attempts[n].kind = "return"
             /\ retry.result.val = retry.attempts[n].val
             /\ \A k \in 1..(n - 1) : retry.attempts[k].kind = "throw"
       /\ (retry.result.kind = "rejected" /\ retry.maxRetries >= 1)
          => /\ n = retry.maxRetries
             /\ \A k \in 1..n : retry.attempts[k].kind = "throw"
             /\ retry.result.val = retry.attempts[n].val
       /\ retry.pc = "done"
          => (retry.result.kind = "resolved"
              <=> \E k \in 1..n : retry.attempts[k].kind = "return")

\* C17 witness: three attempts failed, the first and the last with different
\* errors, and the helper rejected with the error of the last
C17_Witness ==
    /\ retry.maxRetries = 3 /\ retry.result.kind = "rejected"
    /\ Len(retry.attempts) = 3
    /\ retry.attempts[1].val = "e1" /\ retry.attempts[3].val = "e2"
    /\ retry.result.val = "e2"

\* C17, the other case: the third attempt succeeded and gave the result
C17_WitnessResolved ==
    /\ retry.result.kind = "resolved" /\ Len(retry.attempts) = 3
    /\ retry.result.val = "v2" /\ retry.now > 0

====
